---- MODULE Spec2Model ----
(***************************************************************************)
(* Call-wrapping policies of decorators.py: circuit breaker, rate limiter  *)
(* and cache.  Time is the value time.time() returns, in whole ticks.      *)
(* Every wrapper reads the clock once, on entry (current_time), and uses   *)
(* that reading for all of its bookkeeping.                                *)
(***************************************************************************)
EXTENDS Integers, Sequences, FiniteSets, TLC

\* ---------------------------------------------------------------- bounds
MaxTime == 5          \* the clock runs over 0..MaxTime
MaxThreshold == 2     \* failure_threshold is drawn from 1..MaxThreshold
MaxRecovery == 2      \* recovery_timeout is drawn from 0..MaxRecovery
MaxCount == 4         \* cap on failure_count
MaxCalls == 2         \* max_calls is drawn from 0..MaxCalls
MaxPeriod == 2        \* period_seconds is drawn from 1..MaxPeriod
NThreads == 2         \* concurrent callers of one rate-limited operation
MaxTtl == 2           \* ttl_seconds is drawn from -1..MaxTtl
MaxVal == 2           \* the inner operation returns a value of 1..MaxVal
MaxAdmitted == 3      \* cap on the admitted calls of a threaded run
MaxAttempts == 3      \* max_attempts is drawn from 0..MaxAttempts
MaxDelay == 2         \* delay is drawn from 1..MaxDelay
MaxBackoff == 2       \* backoff is drawn from 1..MaxBackoff
MaxRetryCalls == 2    \* calls made through one retry wrapper
MaxCacheCalls == 3    \* calls completed by the interleaved callers of the cache
MaxBreakerCalls == 4  \* calls completed by the interleaved callers of the breaker
MaxSharedCalls == 2   \* calls made through the wrappers over the shared storages

\* ------------------------------------------------------- program constants
ProbeSuccesses == 2   \* successes in HALF_OPEN that close the breaker

CLOSED == "closed"
OPEN == "open"
HALF_OPEN == "half_open"

VARIABLES
    now,          \* time.time()
    \* circuit breaker
    cbcfg,        \* [failure_threshold, recovery_timeout] of the decorator
    storage,      \* _circuit_breaker_storage[func_id]
    cbLast,       \* observation of the most recent call through the breaker
    cbPrev,       \* observation of the call before it
    cbRun,        \* qualifying failures of executed calls since the last success
    cbStreak,     \* successes in a row, counted from a successful probe call
    \* rate limiter
    rlcfg,        \* [max_calls, period_seconds] of the decorator
    call_history, \* _rate_limit_storage[func_id]
    rlLast,       \* observation of the most recent call through the limiter
    rlPrev,       \* observation of the call before it
    admitted,     \* entry times of the calls that reached the inner operation
    rpc,          \* per caller thread: the line of rate_limit.wrapper it is at
    rloc,         \* per caller thread: its locals [current_time, pruned]
    \* cache
    ttl_seconds,      \* the decorator's argument
    cache_store,      \* cache_key -> result
    cache_timestamps, \* cache_key -> current_time of the call that stored it
    cpc,              \* per caller: "idle", or "computing" inside func
    cloc,             \* per caller: its locals [cache_key, current_time, ...]
    cacheLast,        \* observation of the most recently completed call
    lastStore,        \* per key: when a result was last stored, and which
    lastOut,          \* per key: how the last completed call with it ended
    \* retry
    rtcfg,            \* [max_attempts, delay, backoff] of the decorator
    rtpc,             \* "idle", or "running" inside the loop of the wrapper
    attempt,          \* the loop variable
    current_delay,    \* the local of line 131
    last_exception,   \* 0 for None, else the attempt whose exception it is
    rtTrace,          \* what func did at each attempt of the current call
    sleeps,           \* the arguments of time.sleep during the current call
    rtResult,         \* how the last completed call ended
    rtCalls,          \* calls started so far
    \* timing_decorator, logging_decorator, validate_input
    wrstack,          \* the instrumentation wrappers around func, outermost first
    wrLast,           \* the last call through the stack: inner outcome and result
    vlcfg,            \* the parameter names given to validate_input, in order
    vlLast,           \* the last call through the validating wrapper
    \* several wrappers over the module-level storages
    shcfg,            \* the decorator arguments all the wrappers are built with
    live,             \* the ids of the function objects that exist
    wrappers,         \* per wrapper: its kind and id(func), kind "none" if not built
    rl_storage,       \* _rate_limit_storage: id -> call history
    cb_storage,       \* _circuit_breaker_storage: id -> storage dict, where present
    own,              \* per wrapper: the state a storage of its own would hold
    builtFresh,       \* per wrapper: it saw an empty history / new storage when built
    shLast,           \* the last call: its outcome, and the outcome on `own`
    shCalls,          \* calls made so far
    \* cache, callers interleaved
    ctResult,         \* per caller: the local `result`, 0 before func returned
    ctComputed,       \* the values func has returned
    ctFault,          \* the line at which a call raised KeyError, 0 if none did
    ctDone,           \* calls completed so far
    \* circuit breaker, callers interleaved
    bpc,              \* per thread: the statement it executes next
    bloc,             \* per thread: the locals current_time and state
    btLast,           \* the last bookkeeping after func: storage before and after
    btDone            \* calls completed so far

cbVars == <<cbcfg, storage, cbLast, cbPrev, cbRun, cbStreak>>
rlVars == <<rlcfg, call_history, rlLast, rlPrev, admitted>>
thVars == <<rpc, rloc>>
caVars == <<ttl_seconds, cache_store, cache_timestamps, cpc, cloc, cacheLast, lastStore, lastOut>>
rtVars == <<rtcfg, rtpc, attempt, current_delay, last_exception, rtTrace, sleeps,
            rtResult, rtCalls>>
wrVars == <<wrstack, wrLast, vlcfg, vlLast>>
shVars == <<shcfg, live, wrappers, rl_storage, cb_storage, own, builtFresh, shLast,
            shCalls>>
ctVars == <<ctResult, ctComputed, ctFault, ctDone>>
btVars == <<bpc, bloc, btLast, btDone>>
xVars == <<rtVars, wrVars, shVars, ctVars, btVars>>
vars == <<now, cbVars, rlVars, thVars, caVars, xVars>>

Min(a, b) == IF a < b THEN a ELSE b

\* ------------------------------------------------------------------ clock
Tick ==
    /\ now < MaxTime
    /\ now' = now + 1
    /\ UNCHANGED <<cbVars, rlVars, thVars, caVars, xVars>>

\* ======================================================== circuit breaker
NewStorage ==
    [state |-> CLOSED, failure_count |-> 0, last_failure_time |-> 0, success_count |-> 0]

NoCall ==
    [seq |-> 0, at |-> 0, pre |-> "", preLft |-> 0, mid |-> "", midSucc |-> 0,
     midFc |-> 0, out |-> "none", invoked |-> 0, wait |-> 0]

\* Mutants of the entry check: the wait time without the elapsed time taken
\* off, and the transition to HALF_OPEN without the reset of success_count.
cb_enter_noElapsed(s, state, current_time, recovery_timeout) ==
    IF state = OPEN
    THEN IF current_time - s.last_failure_time >= recovery_timeout
         THEN [storage |-> [s EXCEPT !.state = HALF_OPEN, !.success_count = 0],
               rejected |-> FALSE, wait |-> 0]
         ELSE [storage |-> s, rejected |-> TRUE, wait |-> recovery_timeout]
    ELSE [storage |-> s, rejected |-> FALSE, wait |-> 0]

cb_enter_keepSuccess(s, state, current_time, recovery_timeout) ==
    IF state = OPEN
    THEN IF current_time - s.last_failure_time >= recovery_timeout
         THEN [storage |-> [s EXCEPT !.state = HALF_OPEN],
               rejected |-> FALSE, wait |-> 0]
         ELSE [storage |-> s, rejected |-> TRUE,
               wait |-> recovery_timeout - (current_time - s.last_failure_time)]
    ELSE [storage |-> s, rejected |-> FALSE, wait |-> 0]

\* Lines 296-305: the entry check.  Gives the storage after the check and
\* whether the call is rejected (with the wait time of the message).
cb_enter(s, state, current_time, recovery_timeout) ==
    IF state = OPEN
    THEN IF current_time - s.last_failure_time >= recovery_timeout
         THEN [storage |-> [s EXCEPT !.state = HALF_OPEN, !.success_count = 0],
               rejected |-> FALSE, wait |-> 0]
         ELSE [storage |-> s, rejected |-> TRUE,
               wait |-> recovery_timeout - (current_time - s.last_failure_time)]
    ELSE [storage |-> s, rejected |-> FALSE, wait |-> 0]

\* Mutant of the success path: the breaker closes with failure_count kept.
cb_success_keepCount(s, state) ==
    LET s1 == IF state = HALF_OPEN
              THEN LET t == [s EXCEPT !.success_count = @ + 1]
                   IN  IF t.success_count >= ProbeSuccesses
                       THEN [t EXCEPT !.state = CLOSED]
                       ELSE t
              ELSE s
    IN  IF state = CLOSED THEN [s1 EXCEPT !.failure_count = 0] ELSE s1

\* Mutant of the success path: a success in CLOSED leaves failure_count.
cb_success_noReset(s, state) ==
    IF state = HALF_OPEN
    THEN LET t == [s EXCEPT !.success_count = @ + 1]
         IN  IF t.success_count >= ProbeSuccesses
             THEN [t EXCEPT !.state = CLOSED, !.failure_count = 0]
             ELSE t
    ELSE s

\* Lines 310-318: bookkeeping after the inner operation returned.  `state`
\* is the local read at line 294, before the entry check.
cb_success(s, state) ==
    LET s1 == IF state = HALF_OPEN
              THEN LET t == [s EXCEPT !.success_count = @ + 1]
                   IN  IF t.success_count >= ProbeSuccesses
                       THEN [t EXCEPT !.state = CLOSED, !.failure_count = 0]
                       ELSE t
              ELSE s
    IN  IF state = CLOSED THEN [s1 EXCEPT !.failure_count = 0] ELSE s1

\* Mutant of the failure path: the breaker opens only when failure_count is
\* equal to the threshold.
cb_failure_exact(s, current_time, failure_threshold) ==
    LET t == [s EXCEPT !.failure_count = @ + 1, !.last_failure_time = current_time]
    IN  IF t.failure_count = failure_threshold
        THEN [t EXCEPT !.state = OPEN]
        ELSE t

\* Lines 322-328: bookkeeping after a failure of a configured kind.
cb_failure(s, current_time, failure_threshold) ==
    LET t == [s EXCEPT !.failure_count = @ + 1, !.last_failure_time = current_time]
    IN  IF t.failure_count >= failure_threshold
        THEN [t EXCEPT !.state = OPEN]
        ELSE t

\* Mutant of the handlers: every exception of func counts as a failure.
cb_after_catchAll(s, state, outcome, current_time, failure_threshold) ==
    CASE outcome = "ok" -> cb_success(s, state)
      [] OTHER -> cb_failure(s, current_time, failure_threshold)

\* Lines 307-330: the storage after func ended as `outcome`.  The except
\* clause of line 320 catches the configured kinds only.
cb_after(s, state, outcome, current_time, failure_threshold) ==
    CASE outcome = "ok" -> cb_success(s, state)
      [] outcome = "fail" -> cb_failure(s, current_time, failure_threshold)
      [] OTHER -> s

\* Lines 292-330: one call through the wrapper.  outcome is what the inner
\* operation does if it is reached: "ok", "fail" (a configured exception
\* kind) or "other" (an exception outside `exceptions`).
CBCall(outcome) ==
    LET current_time == now
        state == storage.state
        e == cb_enter(storage, state, current_time, cbcfg.recovery_timeout)
        after == cb_after(e.storage, state, outcome, current_time, cbcfg.failure_threshold)
        obs == [seq |-> 1 - cbLast.seq, at |-> current_time, pre |-> state,
                preLft |-> storage.last_failure_time,
                mid |-> "", midSucc |-> 0, midFc |-> 0, out |-> "circuit_open",
                invoked |-> 0, wait |-> e.wait]
    IN  /\ storage.failure_count < MaxCount
        /\ cbPrev' = cbLast
        /\ IF e.rejected
           THEN /\ outcome = "ok"     \* the inner operation is not reached
                /\ storage' = e.storage
                /\ cbLast' = obs
                /\ UNCHANGED <<cbRun, cbStreak>>
           ELSE /\ storage' = after
                /\ cbLast' = [obs EXCEPT !.mid = e.storage.state,
                                         !.midSucc = e.storage.success_count,
                                         !.midFc = e.storage.failure_count,
                                         !.out = outcome, !.invoked = 1, !.wait = 0]
                /\ cbRun' = CASE outcome = "ok" -> 0
                              [] outcome = "fail" -> cbRun + 1
                              [] OTHER -> cbRun
                /\ cbStreak' = CASE outcome # "ok" -> 0
                                 [] state = OPEN -> 1
                                 [] cbStreak > 0 -> Min(cbStreak + 1, 3)
                                 [] OTHER -> 0
        /\ UNCHANGED <<now, cbcfg, rlVars, thVars, caVars, xVars>>

CBOk == CBCall("ok")
CBFail == CBCall("fail")
CBOther == CBCall("other")

\* =========================================================== rate limiter
\* Mutant of the pruning: an entry exactly period_seconds old is kept.
rl_prune_inclusive(history, current_time, period_seconds) ==
    LET Keep(t) == current_time - t <= period_seconds
    IN  SelectSeq(history, Keep)

\* Line 215: the entries younger than period_seconds, in order.
rl_prune(history, current_time, period_seconds) ==
    LET Keep(t) == current_time - t < period_seconds
    IN  SelectSeq(history, Keep)

\* Mutant of the check: one call too many is let through.
rl_check_offByOne(history, current_time, max_calls, period_seconds) ==
    IF Len(history) > max_calls
    THEN IF Len(history) = 0
         THEN [kind |-> "index_error", wait |-> 0]
         ELSE [kind |-> "rate_limit",
               wait |-> period_seconds - (current_time - history[1])]
    ELSE [kind |-> "admit", wait |-> 0]

\* Lines 217-221: the size check on the pruned history.  call_history[0] of
\* an empty list raises IndexError before the rate-limit exception is built.
rl_check(history, current_time, max_calls, period_seconds) ==
    IF Len(history) >= max_calls
    THEN IF Len(history) = 0
         THEN [kind |-> "index_error", wait |-> 0]
         ELSE [kind |-> "rate_limit",
               wait |-> period_seconds - (current_time - history[1])]
    ELSE [kind |-> "admit", wait |-> 0]

\* The calls of a log whose entry time t has current_time - t < period.
InWindow(log, current_time, period_seconds) ==
    Cardinality({k \in DOMAIN log : current_time - log[k] < period_seconds})

NoRLCall ==
    [seq |-> 0, at |-> 0, prior |-> 0, pruned |-> <<>>, kind |-> "none",
     out |-> "none", invoked |-> 0, wait |-> 0]

\* Lines 210-224: one call through the wrapper, outcome being what the
\* inner operation does when it is reached.
RLCall(outcome) ==
    LET current_time == now
        pruned == rl_prune(call_history, current_time, rlcfg.period_seconds)
        c == rl_check(pruned, current_time, rlcfg.max_calls, rlcfg.period_seconds)
        obs == [seq |-> 1 - rlLast.seq, at |-> current_time,
                prior |-> InWindow(admitted, current_time, rlcfg.period_seconds),
                pruned |-> pruned, kind |-> c.kind, out |-> c.kind,
                invoked |-> 0, wait |-> c.wait]
    IN  /\ rlPrev' = rlLast
        /\ IF c.kind = "admit"
           THEN /\ call_history' = Append(pruned, current_time)
                /\ admitted' = Append(admitted, current_time)
                /\ rlLast' = [obs EXCEPT !.out = outcome, !.invoked = 1]
           ELSE /\ outcome = "ok"     \* the inner operation is not reached
                /\ call_history' = pruned
                /\ admitted' = admitted
                /\ rlLast' = obs
        /\ UNCHANGED <<now, rlcfg, cbVars, thVars, caVars, xVars>>

RLOk == RLCall("ok")
RLFail == RLCall("fail")


\* ------------------------------------------- rate limiter, threaded callers
\* No lock guards _rate_limit_storage: the interpreter may switch threads
\* between the statements of the wrapper, and between building the pruned
\* list of line 215 and storing it into call_history[:].
Threads == 1..NThreads

NoLocals == [current_time |-> 0, pruned |-> <<>>]

\* Lines 211-214.
RLBegin(t) ==
    /\ rpc[t] = "idle"
    /\ Len(admitted) < MaxAdmitted
    /\ rpc' = [rpc EXCEPT ![t] = "filter"]
    /\ rloc' = [rloc EXCEPT ![t] = [current_time |-> now, pruned |-> <<>>]]
    /\ UNCHANGED <<now, cbVars, rlVars, caVars, xVars>>

\* Line 215, right-hand side: the list comprehension.
RLFilter(t) ==
    /\ rpc[t] = "filter"
    /\ rpc' = [rpc EXCEPT ![t] = "assign"]
    /\ rloc' = [rloc EXCEPT ![t].pruned =
                   rl_prune(call_history, rloc[t].current_time, rlcfg.period_seconds)]
    /\ UNCHANGED <<now, cbVars, rlVars, caVars, xVars>>

\* Line 215, the slice assignment.
RLAssign(t) ==
    /\ rpc[t] = "assign"
    /\ call_history' = rloc[t].pruned
    /\ rpc' = [rpc EXCEPT ![t] = "check"]
    /\ UNCHANGED <<now, cbVars, rlcfg, rlLast, rlPrev, admitted, rloc, caVars, xVars>>

\* Lines 217-221.
RLCheck(t) ==
    /\ rpc[t] = "check"
    /\ LET c == rl_check(call_history, rloc[t].current_time,
                         rlcfg.max_calls, rlcfg.period_seconds)
       IN  rpc' = [rpc EXCEPT ![t] = IF c.kind = "admit" THEN "append" ELSE "idle"]
    /\ UNCHANGED <<now, cbVars, rlVars, rloc, caVars, xVars>>

\* Line 223.
RLAppend(t) ==
    /\ rpc[t] = "append"
    /\ call_history' = Append(call_history, rloc[t].current_time)
    /\ rpc' = [rpc EXCEPT ![t] = "invoke"]
    /\ UNCHANGED <<now, cbVars, rlcfg, rlLast, rlPrev, admitted, rloc, caVars, xVars>>

\* Line 224: the inner operation is reached.
RLInvoke(t) ==
    /\ rpc[t] = "invoke"
    /\ admitted' = Append(admitted, rloc[t].current_time)
    /\ rpc' = [rpc EXCEPT ![t] = "idle"]
    /\ rloc' = [rloc EXCEPT ![t] = NoLocals]
    /\ UNCHANGED <<now, cbVars, rlcfg, call_history, rlLast, rlPrev, caVars, xVars>>


\* ================================================================== cache
\* A call is [args, kwargs]: one positional argument and the keyword
\* arguments in call-site order, each a pair <<name, value>> (names are
\* numbered so that they can be ordered).  The calls below pass the same
\* keyword arguments in the two possible orders.
ArgValues == {5}
KwargLists == {<< <<1, 7>>, <<2, 8>> >>, << <<2, 8>>, <<1, 7>> >>}
CacheCalls == [args : ArgValues, kwargs : KwargLists]
Callers == {1, 2}

\* sorted(kwargs.items()): the pairs in the order of their names.
RECURSIVE Insert(_, _)
Insert(pair, sorted) ==
    IF sorted = << >> THEN <<pair>>
    ELSE IF pair[1] <= Head(sorted)[1] THEN <<pair>> \o sorted
    ELSE <<Head(sorted)>> \o Insert(pair, Tail(sorted))

RECURSIVE Sorted(_)
Sorted(items) ==
    IF items = << >> THEN << >> ELSE Insert(Head(items), Sorted(Tail(items)))

\* Line 170: str(args) + str(sorted(kwargs.items())).  The two texts are
\* kept as a pair; for tuples of integers str() loses nothing.
cache_key(args, kwargs) == <<args, Sorted(kwargs)>>

Keys == {cache_key(c.args, c.kwargs) : c \in CacheCalls}

Put(map, key, value) == [k \in DOMAIN map \cup {key} |-> IF k = key THEN value ELSE map[k]]
\* Mutant of the eviction: the expired entry is left in the map.
Del_keep(map, key) == map

Del(map, key) == [k \in DOMAIN map \ {key} |-> map[k]]

NoStore == [when |-> -1, value |-> 0]
NoCacheCall ==
    [at |-> 0, key |-> << >>, prev |-> NoStore, kind |-> "none", value |-> 0,
     invoked |-> 0, out |-> "none", prevOut |-> "none"]
NoCacheLocals == [cache_key |-> << >>, current_time |-> 0, prev |-> NoStore]

\* Mutant of the freshness test: an entry exactly ttl old is served.
cache_fresh_inclusive(timestamps, key, current_time, ttl) ==
    current_time - timestamps[key] <= ttl

\* Line 174: whether the entry of the key is served.
cache_fresh(timestamps, key, current_time, ttl) ==
    current_time - timestamps[key] < ttl

\* Lines 170-179: key, clock, lookup.  A fresh entry ends the call with the
\* stored value; an expired one is deleted and the call goes on to func.
CacheEnter(t, call) ==
    LET key == cache_key(call.args, call.kwargs)
        current_time == now
    IN  /\ cpc[t] = "idle"
        /\ IF key \in DOMAIN cache_store
           THEN IF cache_fresh(cache_timestamps, key, current_time, ttl_seconds)
                THEN /\ cacheLast' = [at |-> current_time, key |-> key,
                                      prev |-> lastStore[key], kind |-> "hit",
                                      value |-> cache_store[key], invoked |-> 0,
                                      out |-> "ok", prevOut |-> lastOut[key]]
                     /\ lastOut' = [lastOut EXCEPT ![key] = "ok"]
                     /\ UNCHANGED <<cache_store, cache_timestamps, cpc, cloc>>
                ELSE /\ cache_store' = Del(cache_store, key)
                     /\ cache_timestamps' = Del(cache_timestamps, key)
                     /\ cpc' = [cpc EXCEPT ![t] = "computing"]
                     /\ cloc' = [cloc EXCEPT ![t] = [cache_key |-> key,
                                     current_time |-> current_time,
                                     prev |-> lastStore[key]]]
                     /\ UNCHANGED <<cacheLast, lastOut>>
           ELSE /\ cpc' = [cpc EXCEPT ![t] = "computing"]
                /\ cloc' = [cloc EXCEPT ![t] = [cache_key |-> key,
                                current_time |-> current_time,
                                prev |-> lastStore[key]]]
                /\ UNCHANGED <<cache_store, cache_timestamps, cacheLast, lastOut>>
        /\ UNCHANGED <<now, ttl_seconds, lastStore, cbVars, rlVars, thVars, xVars>>

\* Lines 181-185: func returns `value` (outcome "ok") and the result is
\* stored under the clock reading of line 171, or func raises ("fail") and
\* nothing is stored.
CacheReturn(t, outcome, value) ==
    LET key == cloc[t].cache_key
        obs == [at |-> cloc[t].current_time, key |-> key, prev |-> cloc[t].prev,
                kind |-> "miss", value |-> value, invoked |-> 1, out |-> outcome,
                prevOut |-> lastOut[key]]
    IN  /\ cpc[t] = "computing"
        /\ lastOut' = [lastOut EXCEPT ![key] = outcome]
        /\ IF outcome = "ok"
           THEN /\ cache_store' = Put(cache_store, key, value)
                /\ cache_timestamps' = Put(cache_timestamps, key, cloc[t].current_time)
                /\ lastStore' = [lastStore EXCEPT ![key] = [when |-> now, value |-> value]]
                /\ cacheLast' = obs
           ELSE /\ value = 1
                /\ cacheLast' = [obs EXCEPT !.value = 0]
                /\ UNCHANGED <<cache_store, cache_timestamps, lastStore>>
        /\ cpc' = [cpc EXCEPT ![t] = "idle"]
        /\ cloc' = [cloc EXCEPT ![t] = NoCacheLocals]
        /\ UNCHANGED <<now, ttl_seconds, cbVars, rlVars, thVars, xVars>>


\* ================================================ cache, callers interleaved
\* The wrapper takes no lock: another caller may run between any two of its
\* statements.  cpc[t] names the statement caller t executes next.  A
\* subscript or del on a key the dictionary lacks raises KeyError.

Fault(t, line) ==
    /\ ctFault' = line
    /\ ctDone' = ctDone + 1
    /\ cpc' = [cpc EXCEPT ![t] = "idle"]
    /\ cloc' = [cloc EXCEPT ![t] = NoCacheLocals]
    /\ ctResult' = [ctResult EXCEPT ![t] = 0]
    /\ UNCHANGED <<cache_store, cache_timestamps, ctComputed>>

Finish(t) ==
    /\ ctDone' = ctDone + 1
    /\ cpc' = [cpc EXCEPT ![t] = "idle"]
    /\ cloc' = [cloc EXCEPT ![t] = NoCacheLocals]
    /\ ctResult' = [ctResult EXCEPT ![t] = 0]

Goto(t, label) ==
    /\ cpc' = [cpc EXCEPT ![t] = label]
    /\ UNCHANGED <<cloc, ctResult, ctComputed, ctFault, ctDone>>

CtFrame == UNCHANGED <<now, ttl_seconds, cacheLast, lastStore, lastOut, cbVars, rlVars,
                       thVars, rtVars, wrVars, shVars, btVars>>

\* Lines 170-171.
CtBegin(t) ==
    \E call \in CacheCalls :
        /\ cpc[t] = "idle"
        /\ ctDone < MaxCacheCalls
        /\ cpc' = [cpc EXCEPT ![t] = "in_store"]
        /\ cloc' = [cloc EXCEPT ![t] = [cache_key |-> cache_key(call.args, call.kwargs),
                                        current_time |-> now, prev |-> NoStore]]
        /\ UNCHANGED <<cache_store, cache_timestamps, ctVars>>
        /\ CtFrame

\* Line 173.
CtInStore(t) ==
    /\ cpc[t] = "in_store"
    /\ IF cloc[t].cache_key \in DOMAIN cache_store
       THEN Goto(t, "fresh")
       ELSE Goto(t, "func")
    /\ UNCHANGED <<cache_store, cache_timestamps>>
    /\ CtFrame

\* Line 174.
CtFresh(t) ==
    /\ cpc[t] = "fresh"
    /\ IF cloc[t].cache_key \notin DOMAIN cache_timestamps
       THEN Fault(t, 174)
       ELSE /\ IF cache_fresh(cache_timestamps, cloc[t].cache_key, cloc[t].current_time,
                              ttl_seconds)
               THEN Goto(t, "hit")
               ELSE Goto(t, "del_store")
            /\ UNCHANGED <<cache_store, cache_timestamps>>
    /\ CtFrame

\* Line 176.
CtHit(t) ==
    /\ cpc[t] = "hit"
    /\ IF cloc[t].cache_key \notin DOMAIN cache_store
       THEN Fault(t, 176)
       ELSE /\ Finish(t)
            /\ UNCHANGED <<cache_store, cache_timestamps, ctComputed, ctFault>>
    /\ CtFrame

\* Line 178.
CtDelStore(t) ==
    /\ cpc[t] = "del_store"
    /\ IF cloc[t].cache_key \notin DOMAIN cache_store
       THEN Fault(t, 178)
       ELSE /\ cache_store' = Del(cache_store, cloc[t].cache_key)
            /\ Goto(t, "del_timestamps")
            /\ UNCHANGED cache_timestamps
    /\ CtFrame

\* Line 179.
CtDelTimestamps(t) ==
    /\ cpc[t] = "del_timestamps"
    /\ IF cloc[t].cache_key \notin DOMAIN cache_timestamps
       THEN Fault(t, 179)
       ELSE /\ cache_timestamps' = Del(cache_timestamps, cloc[t].cache_key)
            /\ Goto(t, "func")
            /\ UNCHANGED cache_store
    /\ CtFrame

\* Line 181: func returns a value, or raises and the call ends with that.
CtFunc(t) ==
    /\ cpc[t] = "func"
    /\ \/ \E value \in 1..MaxVal :
              /\ ctResult' = [ctResult EXCEPT ![t] = value]
              /\ ctComputed' = ctComputed \cup {value}
              /\ cpc' = [cpc EXCEPT ![t] = "put_store"]
              /\ UNCHANGED <<cloc, ctFault, ctDone>>
       \/ /\ Finish(t)
          /\ UNCHANGED <<ctComputed, ctFault>>
    /\ UNCHANGED <<cache_store, cache_timestamps>>
    /\ CtFrame

\* Line 182.
CtPutStore(t) ==
    /\ cpc[t] = "put_store"
    /\ cache_store' = Put(cache_store, cloc[t].cache_key, ctResult[t])
    /\ Goto(t, "put_timestamps")
    /\ UNCHANGED cache_timestamps
    /\ CtFrame

\* Lines 183-185.
CtPutTimestamps(t) ==
    /\ cpc[t] = "put_timestamps"
    /\ cache_timestamps' = Put(cache_timestamps, cloc[t].cache_key, cloc[t].current_time)
    /\ Finish(t)
    /\ UNCHANGED <<cache_store, ctComputed, ctFault>>
    /\ CtFrame


\* ================================================================== retry
\* time.sleep only lets time pass; its arguments are kept in `sleeps`.
\* An attempt of func ends "ok", "retryable" (an exception of a kind listed
\* in `exceptions`) or "fatal" (an exception of another kind).

\* Mutant of the loop bound: range(1, max_attempts).
rt_in_range_short(a, max_attempts) == 1 <= a /\ a < max_attempts

\* Line 133: a is one of range(1, max_attempts + 1).
rt_in_range(a, max_attempts) == 1 <= a /\ a <= max_attempts

\* Mutant of the except clause: every exception is caught.
rt_catches_all(kind) == kind \in {"retryable", "fatal"}

\* Line 136: `except exceptions` catches the configured kinds only.
rt_catches(kind) == kind = "retryable"

\* Mutant of the backoff: the multiplier is added.
rt_next_delay_linear(d, backoff) == d + backoff

\* Line 141.
rt_next_delay(d, backoff) == d * backoff

NoResult == [kind |-> "none", exc |-> "none", by |-> 0]

\* Lines 130-133: the locals, and the first pass of the loop.  With an empty
\* range the loop body never runs and line 145 is `raise None`, which the
\* interpreter turns into a TypeError.
RetryBegin ==
    /\ rtpc = "idle"
    /\ rtCalls < MaxRetryCalls
    /\ rtCalls' = rtCalls + 1
    /\ last_exception' = 0
    /\ current_delay' = rtcfg.delay
    /\ attempt' = 1
    /\ rtTrace' = << >>
    /\ sleeps' = << >>
    /\ IF rt_in_range(1, rtcfg.max_attempts)
       THEN /\ rtpc' = "running"
            /\ rtResult' = NoResult
       ELSE /\ rtpc' = "idle"
            /\ rtResult' = [kind |-> "raise", exc |-> "TypeError", by |-> 0]
    /\ UNCHANGED <<now, rtcfg, cbVars, rlVars, thVars, caVars, wrVars, shVars, ctVars, btVars>>

\* Lines 134-145: one pass of the loop body, func ending as `outcome`.
RetryAttempt(outcome) ==
    /\ rtpc = "running"
    /\ rtTrace' = Append(rtTrace, outcome)
    /\ IF outcome = "ok"
       THEN /\ rtResult' = [kind |-> "return", exc |-> "none", by |-> attempt]
            /\ rtpc' = "idle"
            /\ UNCHANGED <<attempt, current_delay, last_exception, sleeps>>
       ELSE IF ~rt_catches(outcome)
       THEN /\ rtResult' = [kind |-> "raise", exc |-> outcome, by |-> attempt]
            /\ rtpc' = "idle"
            /\ UNCHANGED <<attempt, current_delay, last_exception, sleeps>>
       ELSE /\ last_exception' = attempt
            /\ IF attempt < rtcfg.max_attempts
               THEN /\ sleeps' = Append(sleeps, current_delay)
                    /\ current_delay' = rt_next_delay(current_delay, rtcfg.backoff)
               ELSE UNCHANGED <<sleeps, current_delay>>
            /\ IF rt_in_range(attempt + 1, rtcfg.max_attempts)
               THEN /\ attempt' = attempt + 1
                    /\ rtpc' = "running"
                    /\ rtResult' = NoResult
               ELSE /\ attempt' = attempt
                    /\ rtpc' = "idle"
                    /\ rtResult' = [kind |-> "raise", exc |-> outcome,
                                    by |-> last_exception']
    /\ UNCHANGED <<now, rtcfg, rtCalls, cbVars, rlVars, thVars, caVars, wrVars, shVars, ctVars, btVars>>

RetryOk == RetryAttempt("ok")
RetryRetryable == RetryAttempt("retryable")
RetryFatal == RetryAttempt("fatal")


\* ===================================================== timing and logging
\* A call of the wrapped callable ends "ok" with a value, with an "exception"
\* (a subclass of Exception, told apart by `value`) or with a
\* "base_exception" (KeyboardInterrupt and the like); it takes `dur` seconds
\* and invokes the innermost operation `invoked` times (0 when a policy
\* below answers without it).  The wrapped callables are functions: they
\* have a __name__, and their arguments and results can be formatted.
InnerOutcomes ==
    [out : {"ok", "exception", "base_exception"}, value : 1..MaxVal,
     invoked : {0, 1}, dur : {0, 1}]

Stacks == {<<"timing">>, <<"logging">>, <<"timing", "logging">>, <<"logging", "timing">>}

\* Mutant of the timing wrapper: the exception is logged and not raised again.
timing_wrapper_swallow(lower, start_time) ==
    IF lower.out = "ok"
    THEN [lower EXCEPT !.log = Append(@, [by |-> "timing", level |-> "info",
                                           what |-> lower.end - start_time])]
    ELSE IF lower.out = "exception"
    THEN [lower EXCEPT !.out = "ok", !.value = 0,
                       !.log = Append(@, [by |-> "timing", level |-> "error",
                                          what |-> lower.end - start_time])]
    ELSE lower

\* Lines 34-46: what the timing wrapper makes of the result of func, which it
\* called once at start_time.  `except Exception` lets a base exception pass.
timing_wrapper(lower, start_time) ==
    IF lower.out = "ok"
    THEN [lower EXCEPT !.log = Append(@, [by |-> "timing", level |-> "info",
                                           what |-> lower.end - start_time])]
    ELSE IF lower.out = "exception"
    THEN [lower EXCEPT !.log = Append(@, [by |-> "timing", level |-> "error",
                                           what |-> lower.end - start_time])]
    ELSE lower

\* Lines 98-105: the logging wrapper logs the call, calls func once and logs
\* the result or the exception, which it raises again.
logging_wrapper(lower) ==
    LET called == <<[by |-> "logging", level |-> "info", what |-> -1]>>
    IN  IF lower.out = "ok"
        THEN [lower EXCEPT !.log = called \o Append(@, [by |-> "logging", level |-> "info",
                                                        what |-> lower.value])]
        ELSE IF lower.out = "exception"
        THEN [lower EXCEPT !.log = called \o Append(@, [by |-> "logging", level |-> "error",
                                                        what |-> lower.value])]
        ELSE [lower EXCEPT !.log = called \o @]

\* The call through the wrappers of `stack`, outermost first, started at t.
RECURSIVE Run(_, _, _)
Run(stack, inner, t) ==
    IF stack = << >>
    THEN [out |-> inner.out, value |-> inner.value, invoked |-> inner.invoked,
          end |-> t + inner.dur, log |-> << >>]
    ELSE LET lower == Run(Tail(stack), inner, t)
         IN  IF Head(stack) = "timing"
             THEN timing_wrapper(lower, t)
             ELSE logging_wrapper(lower)

NoWrCall == [called |-> FALSE, at |-> 0,
             inner |-> [out |-> "ok", value |-> 0, invoked |-> 0, dur |-> 0],
             result |-> [out |-> "ok", value |-> 0, invoked |-> 0, end |-> 0, log |-> << >>]]

\* One call through the stack; the clock advances by the running time of func.
InstrumentedCall ==
    \E inner \in InnerOutcomes :
        /\ now + inner.dur <= MaxTime
        /\ now' = now + inner.dur
        /\ wrLast' = [called |-> TRUE, at |-> now, inner |-> inner,
                      result |-> Run(wrstack, inner, now)]
        /\ UNCHANGED <<wrstack, vlcfg, vlLast, cbVars, rlVars, thVars, caVars, rtVars, shVars, ctVars, btVars>>

\* ========================================================= validate_input
\* The names the functools module defines.
FunctoolsAttrs ==
    {"WRAPPER_ASSIGNMENTS", "WRAPPER_UPDATES", "cache", "cached_property", "cmp_to_key",
     "lru_cache", "partial", "partialmethod", "reduce", "singledispatch",
     "singledispatchmethod", "total_ordering", "update_wrapper", "wraps"}

\* func has the parameters x and y; a validator may be given for a name that
\* is no parameter of func.  Every validator is `lambda v: v > 0`.
Params == {"x", "y"}
ArgVals == {0, 1}
Arguments == [Params -> ArgVals]
ValidatorLists == {<< >>, <<"x">>, <<"x", "y">>, <<"y", "x">>, <<"z", "y">>}
validator_func(v) == v > 0

\* Lines 250-253: the first name of validators.items(), in order, that is a
\* bound parameter whose value fails its validator; 0 when there is none.
RECURSIVE first_invalid(_, _, _)
first_invalid(validators, arguments, i) ==
    IF i > Len(validators) THEN 0
    ELSE IF validators[i] \in DOMAIN arguments /\ ~validator_func(arguments[validators[i]])
    THEN i
    ELSE first_invalid(validators, arguments, i + 1)

\* Lines 245-258.  Line 246 looks up `signature` in the functools module.
validate_wrapper(validators, arguments, outcome) ==
    IF "signature" \notin FunctoolsAttrs
    THEN [kind |-> "raise", exc |-> "AttributeError", param |-> "", value |-> 0,
          invoked |-> 0]
    ELSE LET i == first_invalid(validators, arguments, 1)
         IN  IF i # 0
             THEN [kind |-> "raise", exc |-> "ValueError", param |-> validators[i],
                   value |-> arguments[validators[i]], invoked |-> 0]
             ELSE IF outcome = "ok"
             THEN [kind |-> "return", exc |-> "none", param |-> "",
                   value |-> arguments["x"] + arguments["y"], invoked |-> 1]
             ELSE [kind |-> "raise", exc |-> "func", param |-> "", value |-> 0,
                   invoked |-> 1]

NoVlCall == [called |-> FALSE, arguments |-> [p \in Params |-> 0], outcome |-> "ok",
             result |-> [kind |-> "none", exc |-> "none", param |-> "", value |-> 0,
                         invoked |-> 0]]

\* One call of the validating wrapper; func would end as `outcome`.
ValidateCall ==
    \E arguments \in Arguments, outcome \in {"ok", "exception"} :
        /\ vlLast' = [called |-> TRUE, arguments |-> arguments, outcome |-> outcome,
                      result |-> validate_wrapper(vlcfg, arguments, outcome)]
        /\ UNCHANGED <<now, wrstack, wrLast, vlcfg, cbVars, rlVars, thVars, caVars, rtVars, shVars, ctVars, btVars>>


\* ================================================== module-level storages
\* _rate_limit_storage and _circuit_breaker_storage are dictionaries of the
\* module, keyed by id(func).  id(func) is unique among the objects that
\* exist at the same time; a function object created after another was
\* discarded may get the id the discarded one had.
Wrappers == {1, 2}
FuncIds == {1, 2}

NotBuilt == [kind |-> "none", func |-> 0]
OwnFresh == [history |-> << >>, storage |-> NewStorage]
NoShCall == [called |-> FALSE, w |-> 0, out |-> "none", ownOut |-> "none"]

\* Lines 211-224 on a given history.
rl_step(history, current_time, max_calls, period_seconds) ==
    LET pruned == rl_prune(history, current_time, period_seconds)
        c == rl_check(pruned, current_time, max_calls, period_seconds)
    IN  IF c.kind = "admit"
        THEN [history |-> Append(pruned, current_time), out |-> "admit"]
        ELSE [history |-> pruned, out |-> c.kind]

\* Lines 293-330 on a given storage.
cb_step(s, outcome, current_time, failure_threshold, recovery_timeout) ==
    LET state == s.state
        e == cb_enter(s, state, current_time, recovery_timeout)
    IN  IF e.rejected
        THEN [storage |-> e.storage, out |-> "circuit_open"]
        ELSE [storage |-> cb_after(e.storage, state, outcome, current_time,
                                   failure_threshold),
              out |-> outcome]

\* Lines 208-226 and 284-332: a decorator is applied to a function.  With
\* fresh the function object is a new one, whose id is any id no existing
\* function has; otherwise it is an existing function, decorated once more.
\* circuit_breaker fills the missing keys of the dictionary found under the
\* id (setdefault, lines 286-289); rate_limit touches no storage.
ShBuild(w, kind, f, fresh) ==
    /\ wrappers[w].kind = "none"
    /\ IF fresh THEN f \notin live ELSE f \in live
    /\ live' = live \cup {f}
    /\ wrappers' = [wrappers EXCEPT ![w] = [kind |-> kind, func |-> f]]
    /\ cb_storage' = IF kind = "circuit_breaker" /\ f \notin DOMAIN cb_storage
                     THEN Put(cb_storage, f, NewStorage)
                     ELSE cb_storage
    /\ own' = [own EXCEPT ![w] = OwnFresh]
    /\ builtFresh' = [builtFresh EXCEPT ![w] =
                         IF kind = "rate_limit"
                         THEN rl_storage[f] = << >>
                         ELSE cb_storage'[f] = NewStorage]
    /\ UNCHANGED <<now, shcfg, rl_storage, shLast, shCalls, cbVars, rlVars, thVars, caVars,
                   rtVars, wrVars, ctVars, btVars>>

ShBuildNew == \E w \in Wrappers, kind \in {"rate_limit", "circuit_breaker"}, f \in FuncIds :
                  ShBuild(w, kind, f, TRUE)
ShBuildAgain == \E w \in Wrappers, kind \in {"rate_limit", "circuit_breaker"}, f \in FuncIds :
                    ShBuild(w, kind, f, FALSE)

\* A function and the wrappers around it are discarded.  Nothing removes
\* the entries of the two dictionaries.
ShDiscard ==
    \E f \in live :
        /\ live' = live \ {f}
        /\ wrappers' = [w \in Wrappers |->
                           IF wrappers[w].func = f THEN NotBuilt ELSE wrappers[w]]
        /\ own' = [w \in Wrappers |-> IF wrappers[w].func = f THEN OwnFresh ELSE own[w]]
        /\ builtFresh' = [w \in Wrappers |-> wrappers[w].func = f \/ builtFresh[w]]
        /\ shLast' = NoShCall
        /\ UNCHANGED <<now, shcfg, rl_storage, cb_storage, shCalls,
                       cbVars, rlVars, thVars, caVars, rtVars, wrVars, ctVars, btVars>>

\* Lines 211-224: a call through a rate-limit wrapper.
ShRLCall ==
    \E w \in Wrappers :
        /\ wrappers[w].kind = "rate_limit"
        /\ shCalls < MaxSharedCalls
        /\ shCalls' = shCalls + 1
        /\ LET f == wrappers[w].func
               r == rl_step(rl_storage[f], now, shcfg.max_calls, shcfg.period_seconds)
               o == rl_step(own[w].history, now, shcfg.max_calls, shcfg.period_seconds)
           IN  /\ rl_storage' = [rl_storage EXCEPT ![f] = r.history]
               /\ own' = [own EXCEPT ![w].history = o.history]
               /\ shLast' = [called |-> TRUE, w |-> w, out |-> r.out, ownOut |-> o.out]
        /\ UNCHANGED <<now, shcfg, live, wrappers, cb_storage, builtFresh,
                       cbVars, rlVars, thVars, caVars, rtVars, wrVars, ctVars, btVars>>

\* Lines 293-330: a call through a circuit-breaker wrapper.
ShCBCall ==
    \E w \in Wrappers, outcome \in {"ok", "fail"} :
        /\ wrappers[w].kind = "circuit_breaker"
        /\ shCalls < MaxSharedCalls
        /\ shCalls' = shCalls + 1
        /\ LET f == wrappers[w].func
               r == cb_step(cb_storage[f], outcome, now, shcfg.failure_threshold,
                            shcfg.recovery_timeout)
               o == cb_step(own[w].storage, outcome, now, shcfg.failure_threshold,
                            shcfg.recovery_timeout)
           IN  /\ cb_storage[f].failure_count < MaxCount
               /\ own[w].storage.failure_count < MaxCount
               /\ cb_storage' = [cb_storage EXCEPT ![f] = r.storage]
               /\ own' = [own EXCEPT ![w].storage = o.storage]
               /\ shLast' = [called |-> TRUE, w |-> w, out |-> r.out, ownOut |-> o.out]
        /\ UNCHANGED <<now, shcfg, live, wrappers, rl_storage, builtFresh,
                       cbVars, rlVars, thVars, caVars, rtVars, wrVars, ctVars, btVars>>

\* ====================================== circuit breaker, callers interleaved
\* The wrapper takes no lock: another thread may run between its reading of
\* the storage (lines 293-294), the entry check, func, and the bookkeeping
\* after func, which uses the locals read at entry.
NoBtLocals == [current_time |-> 0, state |-> ""]
NoBookkeeping == [kind |-> "none", local |-> "", before |-> NewStorage, after |-> NewStorage]

BtFrame == UNCHANGED <<now, cbcfg, cbLast, cbPrev, cbRun, cbStreak, rlVars, thVars, caVars,
                       rtVars, wrVars, shVars, ctVars>>

BtEnd(t) ==
    /\ bpc' = [bpc EXCEPT ![t] = "idle"]
    /\ bloc' = [bloc EXCEPT ![t] = NoBtLocals]
    /\ btDone' = btDone + 1

\* Lines 293-294.
BtBegin(t) ==
    /\ bpc[t] = "idle"
    /\ btDone < MaxBreakerCalls
    /\ storage.failure_count < MaxCount
    /\ bpc' = [bpc EXCEPT ![t] = "check"]
    /\ bloc' = [bloc EXCEPT ![t] = [current_time |-> now, state |-> storage.state]]
    /\ UNCHANGED <<storage, btLast, btDone>>
    /\ BtFrame

\* Lines 296-305, on the local state and the storage as it is now.
BtCheck(t) ==
    /\ bpc[t] = "check"
    /\ LET e == cb_enter(storage, bloc[t].state, bloc[t].current_time,
                         cbcfg.recovery_timeout)
       IN  /\ storage' = e.storage
           /\ IF e.rejected
              THEN BtEnd(t)
              ELSE /\ bpc' = [bpc EXCEPT ![t] = "func"]
                   /\ UNCHANGED <<bloc, btDone>>
    /\ UNCHANGED btLast
    /\ BtFrame

\* Line 308: func returns, or raises a configured kind.
BtFunc(t) ==
    /\ bpc[t] = "func"
    /\ \E outcome \in {"ok", "fail"} : bpc' = [bpc EXCEPT ![t] = outcome]
    /\ UNCHANGED <<storage, bloc, btLast, btDone>>
    /\ BtFrame

\* Lines 310-318 ("ok") or 321-328 ("fail").
BtRecord(t) ==
    /\ bpc[t] \in {"ok", "fail"}
    /\ storage.failure_count < MaxCount
    /\ storage' = cb_after(storage, bloc[t].state, bpc[t], bloc[t].current_time,
                           cbcfg.failure_threshold)
    /\ btLast' = [kind |-> bpc[t], local |-> bloc[t].state, before |-> storage,
                  after |-> storage']
    /\ BtEnd(t)
    /\ BtFrame


\* ========================================================= specifications
CBIdle ==
    /\ cbcfg = [failure_threshold |-> 1, recovery_timeout |-> 0]
    /\ storage = NewStorage
    /\ cbLast = NoCall
    /\ cbPrev = NoCall
    /\ cbRun = 0
    /\ cbStreak = 0

RLFresh ==
    /\ call_history = <<>>
    /\ rlLast = NoRLCall
    /\ rlPrev = NoRLCall
    /\ admitted = <<>>
    /\ rpc = [t \in Threads |-> "idle"]
    /\ rloc = [t \in Threads |-> NoLocals]

RLIdle ==
    /\ rlcfg = [max_calls |-> 1, period_seconds |-> 1]
    /\ RLFresh

RetryFresh ==
    /\ rtpc = "idle"
    /\ attempt = 0
    /\ current_delay = 0
    /\ last_exception = 0
    /\ rtTrace = << >>
    /\ sleeps = << >>
    /\ rtResult = NoResult
    /\ rtCalls = 0

RetryIdle ==
    /\ rtcfg = [max_attempts |-> 1, delay |-> 1, backoff |-> 1]
    /\ RetryFresh

WrFresh ==
    /\ wrLast = NoWrCall
    /\ vlLast = NoVlCall

WrIdle ==
    /\ wrstack = <<"timing">>
    /\ vlcfg = << >>
    /\ WrFresh

ShFresh ==
    /\ live = {}
    /\ wrappers = [w \in Wrappers |-> NotBuilt]
    /\ rl_storage = [f \in FuncIds |-> << >>]
    /\ cb_storage = << >>
    /\ own = [w \in Wrappers |-> OwnFresh]
    /\ builtFresh = [w \in Wrappers |-> TRUE]
    /\ shLast = NoShCall
    /\ shCalls = 0

ShIdle ==
    /\ shcfg = [max_calls |-> 1, period_seconds |-> 1, failure_threshold |-> 1,
                recovery_timeout |-> 1]
    /\ ShFresh

CtIdle ==
    /\ ctResult = [t \in Callers |-> 0]
    /\ ctComputed = {}
    /\ ctFault = 0
    /\ ctDone = 0

BtIdle ==
    /\ bpc = [t \in Threads |-> "idle"]
    /\ bloc = [t \in Threads |-> NoBtLocals]
    /\ btLast = NoBookkeeping
    /\ btDone = 0

XIdle == RetryIdle /\ WrIdle /\ ShIdle /\ CtIdle /\ BtIdle

CacheFresh ==
    /\ cache_store = << >>
    /\ cache_timestamps = << >>
    /\ cpc = [t \in Callers |-> "idle"]
    /\ cloc = [t \in Callers |-> NoCacheLocals]
    /\ cacheLast = NoCacheCall
    /\ lastStore = [k \in Keys |-> NoStore]
    /\ lastOut = [k \in Keys |-> "none"]

CacheIdle ==
    /\ ttl_seconds = 1
    /\ CacheFresh

CacheInit ==
    /\ now = 0
    /\ XIdle
    /\ CBIdle
    /\ RLIdle
    /\ ttl_seconds \in -1..MaxTtl
    /\ CacheFresh

CBInit ==
    /\ now = 0
    /\ XIdle
    /\ RLIdle
    /\ CacheIdle
    /\ cbcfg \in [failure_threshold : 1..MaxThreshold, recovery_timeout : 0..MaxRecovery]
    /\ storage = NewStorage
    /\ cbLast = NoCall
    /\ cbPrev = NoCall
    /\ cbRun = 0
    /\ cbStreak = 0

RLInit ==
    /\ now = 0
    /\ XIdle
    /\ CBIdle
    /\ CacheIdle
    /\ rlcfg \in [max_calls : 0..MaxCalls, period_seconds : 1..MaxPeriod]
    /\ RLFresh

RLThreadsInit ==
    /\ now = 0
    /\ XIdle
    /\ CBIdle
    /\ CacheIdle
    /\ rlcfg \in [max_calls : 1..MaxCalls, period_seconds : 1..MaxPeriod]
    /\ RLFresh

NextBreaker == Tick \/ CBOk \/ CBFail \/ CBOther

SpecBreaker == CBInit /\ [][NextBreaker]_vars

NextRateLimit == Tick \/ RLOk \/ RLFail

SpecRateLimit == RLInit /\ [][NextRateLimit]_vars

NextRateLimitThreads ==
    \/ Tick
    \/ \E t \in Threads :
           \/ RLBegin(t)
           \/ RLFilter(t)
           \/ RLAssign(t)
           \/ RLCheck(t)
           \/ RLAppend(t)
           \/ RLInvoke(t)

SpecRateLimitThreads == RLThreadsInit /\ [][NextRateLimitThreads]_vars

RetryInit ==
    /\ now = 0
    /\ CBIdle
    /\ RLIdle
    /\ CacheIdle
    /\ rtcfg \in [max_attempts : 0..MaxAttempts, delay : 1..MaxDelay,
                  backoff : 1..MaxBackoff]
    /\ RetryFresh
    /\ WrIdle
    /\ ShIdle
    /\ CtIdle
    /\ BtIdle

WrappersInit ==
    /\ now = 0
    /\ CBIdle
    /\ RLIdle
    /\ CacheIdle
    /\ RetryIdle
    /\ wrstack \in Stacks
    /\ vlcfg \in ValidatorLists
    /\ WrFresh
    /\ ShIdle
    /\ CtIdle
    /\ BtIdle

SharedInit ==
    /\ now = 0
    /\ CBIdle
    /\ RLIdle
    /\ CacheIdle
    /\ RetryIdle
    /\ WrIdle
    /\ shcfg \in [max_calls : {1}, period_seconds : {MaxPeriod},
                  failure_threshold : 1..MaxThreshold, recovery_timeout : {MaxRecovery}]
    /\ ShFresh
    /\ CtIdle
    /\ BtIdle

CacheThreadsInit ==
    /\ now = 0
    /\ CBIdle
    /\ RLIdle
    /\ RetryIdle
    /\ WrIdle
    /\ ShIdle
    /\ ttl_seconds \in 1..MaxTtl
    /\ CacheFresh
    /\ CtIdle
    /\ BtIdle

NextCacheThreads ==
    \/ Tick
    \/ \E t \in Callers :
           \/ CtBegin(t)
           \/ CtInStore(t)
           \/ CtFresh(t)
           \/ CtHit(t)
           \/ CtDelStore(t)
           \/ CtDelTimestamps(t)
           \/ CtFunc(t)
           \/ CtPutStore(t)
           \/ CtPutTimestamps(t)

SpecCacheThreads == CacheThreadsInit /\ [][NextCacheThreads]_vars

BreakerThreadsInit ==
    /\ now = 0
    /\ RLIdle
    /\ CacheIdle
    /\ RetryIdle
    /\ WrIdle
    /\ ShIdle
    /\ CtIdle
    /\ cbcfg \in [failure_threshold : 1..MaxThreshold, recovery_timeout : 1..MaxRecovery]
    /\ storage = NewStorage
    /\ cbLast = NoCall
    /\ cbPrev = NoCall
    /\ cbRun = 0
    /\ cbStreak = 0
    /\ bpc = [t \in Threads |-> "idle"]
    /\ bloc = [t \in Threads |-> NoBtLocals]
    /\ btLast = NoBookkeeping
    /\ btDone = 0

NextBreakerThreads ==
    \/ Tick
    \/ \E t \in Threads :
           \/ BtBegin(t)
           \/ BtCheck(t)
           \/ BtFunc(t)
           \/ BtRecord(t)

SpecBreakerThreads == BreakerThreadsInit /\ [][NextBreakerThreads]_vars

NextShared == Tick \/ ShBuildNew \/ ShBuildAgain \/ ShDiscard \/ ShRLCall \/ ShCBCall

SpecShared == SharedInit /\ [][NextShared]_vars

NextWrappers == InstrumentedCall \/ ValidateCall

SpecWrappers == WrappersInit /\ [][NextWrappers]_vars

NextRetry == RetryBegin \/ RetryOk \/ RetryRetryable \/ RetryFatal

SpecRetry == RetryInit /\ [][NextRetry]_vars

\* One caller at a time; the clock may advance while func runs.
CacheCallStart == \E call \in CacheCalls : CacheEnter(1, call)
CacheCallOk == \E value \in 1..MaxVal : CacheReturn(1, "ok", value)
CacheCallFail == CacheReturn(1, "fail", 1)

NextCache == Tick \/ CacheCallStart \/ CacheCallOk \/ CacheCallFail

SpecCache == CacheInit /\ [][NextCache]_vars

\* ------------------------------------------------ claims: circuit breaker
Executed(c) == c.invoked = 1

\* C1: in Closed the breaker opens exactly when failure_threshold qualifying
\* failures have occurred in a row, last_failure_time being the time of the
\* call that opened it; a success in Closed resets failure_count to 0, so a
\* shorter run of failures never opens the breaker.
C1_ClosedOpensAtThreshold ==
    /\ storage.state = CLOSED =>
           /\ storage.failure_count = cbRun
           /\ cbRun < cbcfg.failure_threshold
    /\ (cbLast.pre = CLOSED /\ Executed(cbLast)) =>
           /\ storage.state = OPEN <=>
                  (cbLast.out = "fail" /\ cbRun = cbcfg.failure_threshold)
           /\ storage.state = OPEN => storage.last_failure_time = cbLast.at
           /\ cbLast.out = "ok" => storage.failure_count = 0

C1_Witness ==
    /\ cbcfg.failure_threshold = 2
    /\ cbPrev.pre = CLOSED /\ cbPrev.out = "fail"
    /\ cbLast.pre = CLOSED /\ cbLast.out = "fail"
    /\ storage.state = OPEN

\* C2: a call made while Open, less than recovery_timeout after
\* last_failure_time, is rejected with the circuit-open error carrying the
\* wait time recovery_timeout - (now - last_failure_time), and the inner
\* operation is not invoked.
C2_OpenRejects ==
    (cbLast.pre = OPEN /\ cbLast.at - cbLast.preLft < cbcfg.recovery_timeout) =>
        /\ cbLast.out = "circuit_open"
        /\ cbLast.invoked = 0
        /\ cbLast.wait = cbcfg.recovery_timeout - (cbLast.at - cbLast.preLft)

C2_Witness ==
    /\ cbLast.pre = OPEN
    /\ cbLast.out = "circuit_open"
    /\ cbLast.at > cbLast.preLft
    /\ cbLast.wait = 1

C4_TwoSuccessesClose ==
    /\ (cbLast.pre = OPEN /\ cbLast.out = "ok") => storage.success_count = 1
    /\ cbStreak = 2 => (storage.state = CLOSED /\ storage.failure_count = 0)

\* C5: one qualifying failure of a call executed in HalfOpen, the probe call
\* included, leaves the breaker Open with last_failure_time the time of that
\* call, and the next call made before recovery_timeout has elapsed again is
\* rejected.
C5_HalfOpenFailureReopens ==
    /\ (cbLast.mid = HALF_OPEN /\ cbLast.out = "fail") =>
           /\ storage.state = OPEN
           /\ storage.last_failure_time = cbLast.at
    /\ (/\ cbPrev.mid = HALF_OPEN /\ cbPrev.out = "fail"
        /\ cbLast.out # "none"
        /\ cbLast.at - cbPrev.at < cbcfg.recovery_timeout) =>
           /\ cbLast.out = "circuit_open"
           /\ cbLast.invoked = 0

C5_Witness ==
    /\ cbPrev.pre = OPEN /\ cbPrev.mid = HALF_OPEN /\ cbPrev.out = "fail"
    /\ cbLast.out = "circuit_open"
    /\ cbLast.at > cbPrev.at

\* --------------------------------------------------- claims: rate limiter
Times == 0..MaxTime

C7_RejectionCarriesWait ==
    (rlLast.kind # "none" /\ Len(rlLast.pruned) >= rlcfg.max_calls) =>
        /\ rlLast.kind = "rate_limit"
        /\ rlLast.wait = rlcfg.period_seconds - (rlLast.at - rlLast.pruned[1])
        /\ rlLast.invoked = 0
        /\ call_history = rlLast.pruned

\* C8: after a rejection, a call made once period_seconds have elapsed
\* since the earliest counted call of that rejection is admitted and invokes
\* the inner operation, provided fewer than max_calls other counted calls
\* remain in its window.
C8_Replenishment ==
    (/\ rlPrev.kind = "rate_limit"
     /\ rlLast.kind # "none"
     /\ rlLast.at - rlPrev.pruned[1] >= rlcfg.period_seconds
     /\ rlLast.prior < rlcfg.max_calls) =>
        /\ rlLast.kind = "admit"
        /\ rlLast.invoked = 1
        /\ call_history[Len(call_history)] = rlLast.at

C8_Witness ==
    /\ rlcfg.max_calls = 2
    /\ rlPrev.kind = "rate_limit"
    /\ rlLast.kind = "admit"
    /\ rlLast.prior = 1
    /\ rlLast.at - rlPrev.pruned[1] = rlcfg.period_seconds

\* C9: with concurrent callers, in every interleaving at most max_calls
\* calls are admitted in any window of period_seconds, and the timestamp of
\* an admitted call that is still inside the period is in the history.
Occurrences(seq, v) == Cardinality({k \in DOMAIN seq : seq[k] = v})

C9_AtomicAdmission ==
    /\ \A a \in Times :
           Cardinality({k \in DOMAIN admitted :
                           a <= admitted[k] /\ admitted[k] < a + rlcfg.period_seconds})
               <= rlcfg.max_calls
    /\ \A v \in Times :
           now - v < rlcfg.period_seconds =>
               Occurrences(admitted, v) <= Occurrences(call_history, v)

\* ---------------------------------------------------------- claims: cache
\* C10: with ttl > 0, a call with the arguments of an earlier successful
\* call, made less than ttl after that call's result was stored, returns the
\* stored value without invoking the inner operation; a call made once ttl
\* has elapsed since the storing invokes the inner operation again and
\* overwrites the entry with the new result and timestamp.
C10_FreshWithinTtl ==
    (ttl_seconds > 0 /\ cacheLast.kind # "none" /\ cacheLast.prev # NoStore) =>
        /\ cacheLast.at - cacheLast.prev.when < ttl_seconds =>
               /\ cacheLast.kind = "hit"
               /\ cacheLast.invoked = 0
               /\ cacheLast.value = cacheLast.prev.value
        /\ cacheLast.at - cacheLast.prev.when >= ttl_seconds =>
               /\ cacheLast.kind = "miss"
               /\ cacheLast.invoked = 1
               /\ (cacheLast.out = "ok" /\ cpc[1] = "idle") =>
                      /\ cache_store[cacheLast.key] = cacheLast.value
                      /\ cache_timestamps[cacheLast.key] = cacheLast.at

\* C11: when the inner operation fails on a miss or on an expired entry, the
\* call ends with that failure and no entry of the key is left, neither a
\* new value nor the stale one, so the next call with the same arguments
\* invokes the inner operation again.
C11_FailureNotCached ==
    /\ \A k \in Keys :
           lastOut[k] = "fail" =>
               (k \notin DOMAIN cache_store /\ k \notin DOMAIN cache_timestamps)
    /\ (cacheLast.kind = "miss" /\ cacheLast.out = "fail") =>
           (cacheLast.invoked = 1 /\ cacheLast.value = 0)
    /\ cacheLast.prevOut = "fail" =>
           (cacheLast.kind = "miss" /\ cacheLast.invoked = 1)

C11_Witness ==
    /\ cacheLast.prevOut = "fail"
    /\ cacheLast.prev # NoStore
    /\ cacheLast.out = "ok"
    /\ cacheLast.at < cacheLast.prev.when + ttl_seconds

\* C12: with ttl <= 0 and a clock that never goes back, no call is served
\* from the cache: every call invokes the inner operation once.
C12_NonPositiveTtlNeverFresh ==
    (ttl_seconds <= 0 /\ cacheLast.kind # "none") =>
        (cacheLast.kind = "miss" /\ cacheLast.invoked = 1)

C12_Witness ==
    /\ ttl_seconds = 0
    /\ cacheLast.kind = "miss"
    /\ cacheLast.prevOut = "ok"
    /\ cacheLast.prev.when = cacheLast.at

\* C17: when func fails with a kind outside the configured exceptions, the
\* call raises that failure and leaves failure_count, success_count,
\* last_failure_time and the state as they were when func was invoked.
C17_NonQualifyingFailureFrame ==
    cbLast.out = "other" =>
        /\ cbLast.invoked = 1
        /\ storage = [state |-> cbLast.mid, failure_count |-> cbLast.midFc,
                      last_failure_time |-> cbLast.preLft,
                      success_count |-> cbLast.midSucc]

C17_Witness ==
    /\ cbLast.out = "other"
    /\ cbLast.pre = OPEN /\ cbLast.mid = HALF_OPEN
    /\ cbLast.midFc > 0
    /\ storage.state = HALF_OPEN
    /\ cbPrev.out = "circuit_open"

\* -------------------------------------------------------- claims: storages
\* C16: the history of a rate-limit wrapper and the state of a
\* circuit-breaker wrapper are the wrapper's own: a wrapper starts with an
\* empty history or a new CLOSED storage, every call through it ends as it
\* would on a storage only this wrapper touched, and the breaker state seen
\* through it is the one its own calls produced, also when two wrappers are
\* built over one function or over a function with the id of a discarded one.
C16_StateIsolation ==
    /\ \A w \in Wrappers : wrappers[w].kind # "none" => builtFresh[w]
    /\ shLast.called => shLast.out = shLast.ownOut
    /\ \A w \in Wrappers :
           wrappers[w].kind = "circuit_breaker" =>
               cb_storage[wrappers[w].func] = own[w].storage

\* ------------------------------------------------- claims: cache, threads
\* C20: with callers of one key interleaved, no call ends with a fault of
\* the cache's own bookkeeping, the two dictionaries have the same keys
\* whenever no call is in progress, and a stored value is one that func
\* returned.
C20_ConcurrentCache ==
    /\ ctFault = 0
    /\ (\A t \in Callers : cpc[t] = "idle") =>
           DOMAIN cache_store = DOMAIN cache_timestamps
    /\ \A k \in DOMAIN cache_store : cache_store[k] \in ctComputed

\* ---------------------------------------------------------- claims: retry
RECURSIVE Pow(_, _)
Pow(b, e) == IF e = 0 THEN 1 ELSE b * Pow(b, e - 1)

RtDone == rtpc = "idle" /\ rtCalls > 0
Count(seq, v) == Cardinality({i \in DOMAIN seq : seq[i] = v})

\* C13: with max_attempts >= 1 and an inner operation that fails with a
\* retryable kind k times before it succeeds, a call invokes it
\* min(k + 1, max_attempts) times: it returns the success when
\* k < max_attempts, and otherwise raises the failure of the last attempt
\* itself.
C13_InvocationCount ==
    (rtcfg.max_attempts >= 1 /\ rtCalls > 0 /\ Count(rtTrace, "fatal") = 0) =>
        LET n == Len(rtTrace)
            k == Count(rtTrace, "retryable")
        IN  /\ n <= rtcfg.max_attempts
            /\ rtpc = "running" => (k = n /\ n < rtcfg.max_attempts)
            /\ RtDone =>
                   /\ n >= 1
                   /\ rtTrace[n] = "ok" =>
                          /\ rtResult.kind = "return"
                          /\ k = n - 1 /\ k < rtcfg.max_attempts
                   /\ rtTrace[n] = "retryable" =>
                          /\ n = rtcfg.max_attempts /\ k = n
                          /\ rtResult = [kind |-> "raise", exc |-> "retryable", by |-> n]

C13_Witness ==
    /\ RtDone
    /\ rtcfg.max_attempts = 3
    /\ rtTrace = <<"retryable", "retryable", "ok">>
    /\ rtResult.kind = "return"

\* C14: an attempt failing with a kind outside the retryable set ends the
\* call with that failure at once, at whatever attempt: no later attempt and
\* no wait after it.
C14_NonRetryablePropagates ==
    \A i \in DOMAIN rtTrace :
        rtTrace[i] = "fatal" =>
            /\ i = Len(rtTrace)
            /\ rtpc = "idle"
            /\ rtResult = [kind |-> "raise", exc |-> "fatal", by |-> i]
            /\ Len(sleeps) = i - 1

C14_Witness ==
    /\ RtDone
    /\ rtTrace = <<"retryable", "fatal">>
    /\ rtcfg.max_attempts = 3
    /\ Len(sleeps) = 1

\* C19: the wait after the i-th failed retryable attempt, i < max_attempts,
\* is delay * backoff^(i-1); there is a wait only between a failed attempt
\* and the next one, and the next call starts again at delay.
C19_BackoffSequence ==
    rtCalls > 0 =>
        /\ \A i \in DOMAIN sleeps : sleeps[i] = rtcfg.delay * Pow(rtcfg.backoff, i - 1)
        /\ rtpc = "running" => Len(sleeps) = Len(rtTrace)
        /\ (rtpc = "idle" /\ Len(rtTrace) > 0) => Len(sleeps) = Len(rtTrace) - 1
        /\ Len(rtTrace) = 0 => Len(sleeps) = 0
        /\ \A i \in DOMAIN sleeps : rtTrace[i] = "retryable"

C19_Witness ==
    /\ rtCalls = 2
    /\ rtcfg.backoff = 2 /\ rtcfg.delay = 2
    /\ sleeps = <<2, 4>>
    /\ RtDone

\* ------------------------------------------------------- claims: wrappers
\* C15: a call binding a validated parameter to a value that fails its
\* validator raises ValueError naming that parameter and value and does not
\* invoke func; a call whose validated arguments all pass invokes func once
\* and returns its result (or raises its failure).
C15_Validator ==
    vlLast.called =>
        LET bad == {p \in Params : \E i \in DOMAIN vlcfg : vlcfg[i] = p
                                   /\ ~validator_func(vlLast.arguments[p])}
            r == vlLast.result
        IN  IF bad # {}
            THEN /\ r.kind = "raise" /\ r.exc = "ValueError"
                 /\ r.param \in bad /\ r.value = vlLast.arguments[r.param]
                 /\ r.invoked = 0
            ELSE /\ r.invoked = 1
                 /\ vlLast.outcome = "ok" =>
                        (r.kind = "return"
                         /\ r.value = vlLast.arguments["x"] + vlLast.arguments["y"])
                 /\ vlLast.outcome = "exception" => (r.kind = "raise" /\ r.exc = "func")

\* C18: a call through timing and/or logging wrappers returns the value or
\* raises the failure of the wrapped callable, and invokes the innermost
\* operation as often as the wrapped callable alone does.
C18_InstrumentationTransparent ==
    wrLast.called =>
        /\ wrLast.result.out = wrLast.inner.out
        /\ wrLast.result.value = wrLast.inner.value
        /\ wrLast.result.invoked = wrLast.inner.invoked

C18_Witness ==
    /\ wrLast.called
    /\ wrstack = <<"timing", "logging">>
    /\ wrLast.inner.out = "exception" /\ wrLast.inner.value = 2
    /\ wrLast.inner.invoked = 1 /\ wrLast.inner.dur = 1
    /\ Len(wrLast.result.log) = 3
    /\ wrLast.result.log[3] = [by |-> "timing", level |-> "error", what |-> 1]

\* C23: for every max_attempts, zero and below included, a call through the
\* retry wrapper invokes func at least once, and a failure it raises is one
\* func raised during that call, never an error of the wrapper's own.
C23_AlwaysDelegates ==
    RtDone =>
        /\ Len(rtTrace) >= 1
        /\ rtResult.kind = "raise" =>
               /\ rtResult.exc \in {"retryable", "fatal"}
               /\ rtResult.by \in DOMAIN rtTrace
               /\ rtTrace[rtResult.by] = rtResult.exc

\* C22: with failure_threshold >= 1 and calls that do not overlap, between
\* calls the breaker is CLOSED exactly when failure_count is below
\* failure_threshold; failure_count is at or above it throughout OPEN and
\* HALF_OPEN.
C22_ClosedIffBelowThreshold ==
    cbcfg.failure_threshold >= 1 =>
        (storage.state = CLOSED <=> storage.failure_count < cbcfg.failure_threshold)

C22_Witness ==
    /\ storage.state = CLOSED
    /\ storage.failure_count = 0
    /\ cbLast.pre = HALF_OPEN /\ cbLast.out = "ok"
    /\ cbLast.midFc > cbcfg.failure_threshold

\* C21: with calls of one breaker overlapping, the bookkeeping after func
\* acts on the state the breaker has at that moment: a success of a call
\* that began in CLOSED does not reset failure_count once the breaker is
\* OPEN, and a qualifying failure recorded in HALF_OPEN leaves it OPEN.
C21_ConcurrentBreaker ==
    /\ (btLast.kind = "ok" /\ btLast.local = CLOSED /\ btLast.before.state = OPEN) =>
           btLast.after.failure_count = btLast.before.failure_count
    /\ (btLast.kind = "fail" /\ btLast.before.state = HALF_OPEN) =>
           btLast.after.state = OPEN

====
